---- MODULE Spec2Model ----
(***************************************************************************)
(* A model of datactics::ProjectNode (src/src/projectdesigner.cpp): the    *)
(* node's cached layout rectangles, its setters, the layout pass, the hit  *)
(* test and the perimeter point of its rounded-rectangle outline.          *)
(*                                                                         *)
(* Spec           the life of one node: setters, resizes, layout passes    *)
(*                and hit tests.                                           *)
(* SpecPerimeter  GetPerimeterPoint, a const query, applied to nodes of    *)
(*                bounded geometry and bounded inside/outside points.      *)
(* SpecCanvas     one run of ProjectDesigner::DrawCanvasBackground, loop   *)
(*                iteration by loop iteration.                             *)
(***************************************************************************)
EXTENDS Integers, Sequences, FiniteSets, TLC

VARIABLES
    node,          \* the ProjectNode object: its fields and its GraphNode part
    op,            \* the member function that ran last
    passes,        \* layout passes run in a row since the last setter or resize
    emptyOnEntry,  \* the cached rectangles that were empty when the last pass began
    measured,      \* the strings the last layout pass measured
    hitPt,         \* the argument of the last HitTest
    hit,           \* the value the last HitTest returned
    ptInside,       \* the arguments of the last GetPerimeterPoint
    ptOutside,
    perim,         \* what the last GetPerimeterPoint computed and returned
    canvas         \* ProjectDesigner::DrawCanvasBackground: its locals and position

vars ==
    <<node, op, passes, emptyOnEntry, measured, hitPt, hit, ptInside, ptOutside, perim,
      canvas>>

----------------------------------------------------------------------------
(* Integer arithmetic of the C++ source *)

Abs(a) == IF a < 0 THEN -a ELSE a

Max(a, b) == IF a < b THEN b ELSE a

Min(a, b) == IF a < b THEN a ELSE b

\* int / int of C++: the quotient truncated towards zero
TruncDiv(a, b) ==
    IF (a < 0) = (b < 0) THEN Abs(a) \div Abs(b) ELSE -(Abs(a) \div Abs(b))

----------------------------------------------------------------------------
(* wxPoint, wxRect, wxIcon and the text measurer, as the source uses them *)

Point(px, py) == [x |-> px, y |-> py]

Rect(rx, ry, rw, rh) == [x |-> rx, y |-> ry, width |-> rw, height |-> rh]

\* wxRect(): what the setters assign to a cached rectangle
EmptyRect == Rect(0, 0, 0, 0)

IsEmpty(r) == r.width <= 0 \/ r.height <= 0

GetRight(r) == r.x + r.width - 1

GetBottom(r) == r.y + r.height - 1

RectInside(r, p) ==
    /\ p.x >= r.x
    /\ p.y >= r.y
    /\ p.x - r.x < r.width
    /\ p.y - r.y < r.height

\* wxRect::Deflate(d), d >= 0: a side shorter than 2 d collapses to its middle
Deflate(r, d) ==
    [x      |-> IF 2 * d > r.width THEN r.x + TruncDiv(r.width, 2) ELSE r.x + d,
     y      |-> IF 2 * d > r.height THEN r.y + TruncDiv(r.height, 2) ELSE r.y + d,
     width  |-> IF 2 * d > r.width THEN 0 ELSE r.width - 2 * d,
     height |-> IF 2 * d > r.height THEN 0 ELSE r.height - 2 * d]

\* wxNullIcon: Ok() is false
NullIcon == [ok |-> FALSE, width |-> 0, height |-> 0]

Icon(w, h) == [ok |-> TRUE, width |-> w, height |-> h]

SeqMax(s) == IF s = <<>> THEN 0 ELSE
    CHOOSE m \in {s[i] : i \in DOMAIN s} : \A i \in DOMAIN s : s[i] <= m

\* wxDC::GetMultiLineTextExtent under the font the pass selected.  A string is
\* the sequence of its lines' lengths, a font its character cell: the width is
\* that of the longest line, the height that of all the lines.
GetMultiLineTextExtent(text, font) ==
    [w |-> font.cw * SeqMax(text), h |-> font.lh * Len(text)]

----------------------------------------------------------------------------
(* The inputs the setters are called with *)

\* two fonts of different character cells
Fonts == {[cw |-> 1, lh |-> 2], [cw |-> 2, lh |-> 3]}

\* "" and a two-line label
Texts == {<<>>, <<3, 1>>}

\* "" and a one-line result
Results == {<<>>, <<4>>}

\* no icon, and an icon of IconSize x (IconSize + 1) pixels
IconSize == 4

Icons == {NullIcon, Icon(IconSize, IconSize + 1)}

\* thickness and radius: the constructor's values, zero, and a hairline border
DefaultBorderThickness == 6

DefaultCornerRadius == 10

BorderThicknesses == {0, 1, DefaultBorderThickness}

CornerRadii == {0, DefaultCornerRadius}

\* the node's top-left corner; the layout never moves it
NodeLeft == 3

NodeTop == 2

\* sizes a caller passes to SetSize
MaxResize == 40

Sizes == {[w |-> 0, h |-> 0], [w |-> MaxResize, h |-> MaxResize]}

\* GraphNode::Style
Style_Custom == "Style_Custom"

----------------------------------------------------------------------------
(* ProjectNode::OnLayout *)

Spacing(n) ==
    n.m_cornerRadius + TruncDiv(n.m_borderThickness, 2)
      - TruncDiv((n.m_cornerRadius - TruncDiv(n.m_borderThickness, 2)) * 1000000, 1414214)

\* lines 310-326: the rectangles that are empty are computed anew
Measure(n) ==
    LET spacing == Spacing(n)
        te == GetMultiLineTextExtent(n.m_text, n.m_font)
        re == GetMultiLineTextExtent(n.m_result, n.m_font)
        rcText == IF IsEmpty(n.m_rcText)
                  THEN Rect(spacing, spacing, te.w, te.h) ELSE n.m_rcText
        rcIcon == IF n.m_icon.ok /\ IsEmpty(n.m_rcIcon)
                  THEN Rect(spacing, 0, n.m_icon.width, n.m_icon.height)
                  ELSE n.m_rcIcon
        iconHSpace == rcIcon.width + spacing
        rcResult == IF IsEmpty(n.m_rcResult)
                    THEN Rect(spacing + iconHSpace, 0, re.w, re.h) ELSE n.m_rcResult
    IN  [n EXCEPT !.m_rcText = rcText, !.m_rcIcon = rcIcon, !.m_rcResult = rcResult]

\* MinSize with the border thickness left in the height
MinSizeWithBorder(n) ==
    LET spacing == Spacing(n)
    IN  [x |-> Max(GetRight(n.m_rcText), GetRight(n.m_rcResult)) + spacing + 1,
         y |-> Max(n.m_rcIcon.height, n.m_rcResult.height)
                 + GetBottom(n.m_rcText) + 2 + 2 * spacing]

\* MinSize with the two spacings left out of the height
MinSizeNoSpacing(n) ==
    LET spacing == Spacing(n)
    IN  [x |-> Max(GetRight(n.m_rcText), GetRight(n.m_rcResult)) + spacing + 1,
         y |-> Max(n.m_rcIcon.height, n.m_rcResult.height)
                 + GetBottom(n.m_rcText) + 2 - n.m_borderThickness]

\* lines 328-332
MinSize(n) ==
    LET spacing == Spacing(n)
    IN  [x |-> Max(GetRight(n.m_rcText), GetRight(n.m_rcResult)) + spacing + 1,
         y |-> Max(n.m_rcIcon.height, n.m_rcResult.height)
                 + GetBottom(n.m_rcText) + 2 + 2 * spacing - n.m_borderThickness]

\* GraphNode::SetSize: the size changes, the top-left corner stays
GraphNode_SetSize(n, w, h) ==
    [n EXCEPT !.bounds = Rect(n.bounds.x, n.bounds.y, w, h)]

\* Grow with both dimensions set to the minimum when either is below it
GrowBoth(n) ==
    LET b == n.bounds
    IN  IF b.width < n.m_minSize.x \/ b.height < n.m_minSize.y
        THEN GraphNode_SetSize(n, n.m_minSize.x, n.m_minSize.y) ELSE n

\* Grow with the size set to the minimum in every pass
GrowAlways(n) == GraphNode_SetSize(n, n.m_minSize.x, n.m_minSize.y)

\* Grow with the grown bounds put at the origin
GrowAtOrigin(n) ==
    LET b == n.bounds
        w == IF b.width < n.m_minSize.x THEN n.m_minSize.x ELSE b.width
        h == IF b.height < n.m_minSize.y THEN n.m_minSize.y ELSE b.height
    IN  IF b.width < n.m_minSize.x \/ b.height < n.m_minSize.y
        THEN [n EXCEPT !.bounds = Rect(0, 0, w, h)] ELSE n

\* lines 334-342: each dimension below the minimum grows to it
Grow(n) ==
    LET b == n.bounds
        w == IF b.width < n.m_minSize.x THEN n.m_minSize.x ELSE b.width
        h == IF b.height < n.m_minSize.y THEN n.m_minSize.y ELSE b.height
    IN  IF b.width < n.m_minSize.x \/ b.height < n.m_minSize.y
        THEN GraphNode_SetSize(n, w, h) ELSE n

\* Centre with the icon and the result hung below mid
CentreBelowMid(n) ==
    LET divide == GetBottom(n.m_rcText) + 1 + Spacing(n) - n.m_borderThickness
        mid == TruncDiv(divide + n.bounds.height, 2)
    IN  [n EXCEPT !.m_divide = divide, !.m_rcIcon.y = mid, !.m_rcResult.y = mid]

\* Centre with mid taken at the divide
CentreOnDivide(n) ==
    LET divide == GetBottom(n.m_rcText) + 1 + Spacing(n) - n.m_borderThickness
        mid == divide
    IN  [n EXCEPT !.m_divide = divide,
                  !.m_rcIcon.y = mid - TruncDiv(n.m_rcIcon.height, 2),
                  !.m_rcResult.y = mid - TruncDiv(n.m_rcResult.height, 2)]

\* lines 344-347
Centre(n) ==
    LET divide == GetBottom(n.m_rcText) + 1 + Spacing(n) - n.m_borderThickness
        mid == TruncDiv(divide + n.bounds.height, 2)
    IN  [n EXCEPT !.m_divide = divide,
                  !.m_rcIcon.y = mid - TruncDiv(n.m_rcIcon.height, 2),
                  !.m_rcResult.y = mid - TruncDiv(n.m_rcResult.height, 2)]

\* OnLayout with mid taken from the height the bounds had before they grew
OnLayoutCentreBeforeGrow(n) ==
    LET n1 == Measure(n)
        n2 == [n1 EXCEPT !.m_minSize = MinSize(n1)]
        n3 == Centre(n2)
    IN  [n3 EXCEPT !.bounds = Grow(n2).bounds]

OnLayout(n) ==
    LET n1 == Measure(n)
        n2 == [n1 EXCEPT !.m_minSize = MinSize(n1)]
    IN  Centre(Grow(n2))

\* what OnLayout asks the measurer for
Measured(n) ==
    (IF IsEmpty(n.m_rcText) THEN {"text"} ELSE {})
      \cup (IF IsEmpty(n.m_rcResult) THEN {"result"} ELSE {})

EmptyRects(n) ==
    (IF IsEmpty(n.m_rcText) THEN {"text"} ELSE {})
      \cup (IF IsEmpty(n.m_rcResult) THEN {"result"} ELSE {})
      \cup (IF IsEmpty(n.m_rcIcon) THEN {"icon"} ELSE {})

\* GraphNode::Layout: runs OnLayout with a device context of the canvas
GraphNode_Layout(n) == OnLayout(n)

----------------------------------------------------------------------------
(* The object after construction *)

InitNode ==
    [m_text |-> <<>>, m_font |-> [cw |-> 1, lh |-> 2], m_style |-> Style_Custom,
     m_result |-> <<>>, m_icon |-> NullIcon,
     m_borderThickness |-> DefaultBorderThickness,
     m_cornerRadius |-> DefaultCornerRadius,
     m_divide |-> 0,
     m_rcText |-> EmptyRect, m_rcResult |-> EmptyRect, m_rcIcon |-> EmptyRect,
     m_minSize |-> [x |-> 0, y |-> 0],
     bounds |-> Rect(NodeLeft, NodeTop, 0, 0)]

NoPoint == Point(0, 0)

NoPerim == [called |-> FALSE]

\* no background is being drawn
NoCanvas == [pc |-> "idle"]

Init ==
    /\ node = InitNode
    /\ op = "ProjectNode"
    /\ passes = 0
    /\ emptyOnEntry = {}
    /\ measured = {}
    /\ hitPt = NoPoint
    /\ hit = "none"
    /\ ptInside = NoPoint
    /\ ptOutside = NoPoint
    /\ perim = NoPerim
    /\ canvas = NoCanvas

----------------------------------------------------------------------------
(* The setters.  Each is the whole member function: the stores, the resets, *)
(* the layout pass it runs and (without effect on this state) the refresh.  *)

\* a setter `name` has stored and reset, giving n, and now calls Layout()
SetterLayout(name, n) ==
    /\ node' = GraphNode_Layout(n)
    /\ op' = name
    /\ passes' = 1
    /\ emptyOnEntry' = EmptyRects(n)
    /\ measured' = Measured(n)
    /\ hitPt' = NoPoint
    /\ hit' = "none"
    /\ UNCHANGED <<ptInside, ptOutside, perim, canvas>>

\* GraphNode::SetText: stores the text, lays out, refreshes
GraphNode_SetText(n, text) == [n EXCEPT !.m_text = text]

GraphNode_SetFont(n, font) == [n EXCEPT !.m_font = font]

SetTextStores(n, text) ==
    GraphNode_SetText([n EXCEPT !.m_rcText = EmptyRect], text)

\* SetFont without the reset of m_rcResult
SetFontStoresKeepResult(n, font) ==
    GraphNode_SetFont([n EXCEPT !.m_rcText = EmptyRect], font)

\* SetFont without the reset of m_rcText
SetFontStoresKeepText(n, font) ==
    GraphNode_SetFont([n EXCEPT !.m_rcResult = EmptyRect], font)

SetFontStores(n, font) ==
    GraphNode_SetFont([n EXCEPT !.m_rcText = EmptyRect, !.m_rcResult = EmptyRect], font)

\* SetResult without the reset of m_rcResult
SetResultStoresKeepRect(n, text) == [n EXCEPT !.m_result = text]

SetResultStores(n, text) ==
    [n EXCEPT !.m_result = text, !.m_rcResult = EmptyRect]

SetIconStores(n, icon) ==
    [n EXCEPT !.m_icon = icon, !.m_rcIcon = EmptyRect]

SetBorderThicknessStores(n, thickness) ==
    [n EXCEPT !.m_borderThickness = thickness, !.m_rcText = EmptyRect,
              !.m_rcResult = EmptyRect, !.m_rcIcon = EmptyRect]

SetCornerRadiusStores(n, radius) ==
    [n EXCEPT !.m_cornerRadius = radius, !.m_rcText = EmptyRect,
              !.m_rcResult = EmptyRect, !.m_rcIcon = EmptyRect]

SetText == \E text \in Texts : SetterLayout("SetText", SetTextStores(node, text))

SetFont == \E font \in Fonts : SetterLayout("SetFont", SetFontStores(node, font))

SetResult == \E text \in Results : SetterLayout("SetResult", SetResultStores(node, text))

SetIcon == \E icon \in Icons : SetterLayout("SetIcon", SetIconStores(node, icon))

SetBorderThickness ==
    \E thickness \in BorderThicknesses :
        SetterLayout("SetBorderThickness", SetBorderThicknessStores(node, thickness))

SetCornerRadius ==
    \E radius \in CornerRadii :
        SetterLayout("SetCornerRadius", SetCornerRadiusStores(node, radius))

\* a resize by the caller: no layout pass runs
SetSize ==
    \E size \in Sizes :
        /\ node' = GraphNode_SetSize(node, size.w, size.h)
        /\ op' = "SetSize"
        /\ passes' = 0
        /\ emptyOnEntry' = {}
        /\ measured' = {}
        /\ hitPt' = NoPoint
        /\ hit' = "none"
        /\ UNCHANGED <<ptInside, ptOutside, perim, canvas>>

\* HitTest with the icon rectangle tested before the result rectangle
HitTestValueIconFirst(n, pt) ==
    LET bounds == n.bounds
        ptNode == Point(pt.x - bounds.x, pt.y - bounds.y)
    IN  IF ~RectInside(bounds, pt) THEN "Hit_No"
        ELSE IF n.m_style = Style_Custom /\ RectInside(n.m_rcText, ptNode)
             THEN "Hit_Operation"
        ELSE IF n.m_style = Style_Custom /\ RectInside(n.m_rcIcon, ptNode)
             THEN "Hit_Image"
        ELSE IF n.m_style = Style_Custom /\ RectInside(n.m_rcResult, ptNode)
             THEN "Hit_Result"
        ELSE "Hit_Yes"

\* ProjectNode::HitTest
HitTestValue(n, pt) ==
    LET bounds == n.bounds
        ptNode == Point(pt.x - bounds.x, pt.y - bounds.y)
    IN  IF ~RectInside(bounds, pt) THEN "Hit_No"
        ELSE IF n.m_style = Style_Custom /\ RectInside(n.m_rcText, ptNode)
             THEN "Hit_Operation"
        ELSE IF n.m_style = Style_Custom /\ RectInside(n.m_rcResult, ptNode)
             THEN "Hit_Result"
        ELSE IF n.m_style = Style_Custom /\ RectInside(n.m_rcIcon, ptNode)
             THEN "Hit_Image"
        ELSE "Hit_Yes"

\* the points HitTest is called with: the corners of the cached rectangles as
\* they lie in the graph, the corners of the bounds and a point off the bounds
HitPoints(n) ==
    LET b == n.bounds
        at(r) == {Point(b.x + r.x, b.y + r.y),
                  Point(b.x + GetRight(r), b.y + GetBottom(r))}
    IN  at(n.m_rcText) \cup at(n.m_rcResult) \cup at(n.m_rcIcon)
          \cup {Point(b.x, b.y), Point(GetRight(b), GetBottom(b)),
                Point(b.x - 1, b.y)}

HitTest ==
    \E pt \in HitPoints(node) :
        /\ hitPt' = pt
        /\ hit' = HitTestValue(node, pt)
        /\ op' = "HitTest"
        /\ emptyOnEntry' = {}
        /\ measured' = {}
        /\ UNCHANGED <<node, passes, ptInside, ptOutside, perim, canvas>>

\* a layout pass with no setter before it: the one a draw asks for
Layout ==
    /\ node' = GraphNode_Layout(node)
    /\ op' = "Layout"
    /\ passes' = Min(passes + 1, 2)
    /\ emptyOnEntry' = EmptyRects(node)
    /\ measured' = Measured(node)
    /\ hitPt' = NoPoint
    /\ hit' = "none"
    /\ UNCHANGED <<ptInside, ptOutside, perim, canvas>>

Next ==
    \/ SetText
    \/ SetFont
    \/ SetResult
    \/ SetIcon
    \/ SetBorderThickness
    \/ SetCornerRadius
    \/ SetSize
    \/ Layout
    \/ HitTest

Spec == Init /\ [][Next]_vars

----------------------------------------------------------------------------
(* ProjectNode::GetCornerPoint and ProjectNode::GetPerimeterPoint *)

RECURSIVE SqrtSearch(_, _, _)
\* the largest t in lo..hi with t * t <= v, where lo * lo <= v
SqrtSearch(v, lo, hi) ==
    IF lo = hi THEN lo
    ELSE LET mid == (lo + hi + 1) \div 2
         IN  IF mid * mid <= v THEN SqrtSearch(v, mid, hi)
             ELSE SqrtSearch(v, lo, mid - 1)

\* the integer part of sqrt(v), v >= 0
ISqrt(v) == SqrtSearch(v, 0, Min(v, 46340))

IsSquare(v) == ISqrt(v) * ISqrt(v) = v

Sgn(a) == IF a < 0 THEN -1 ELSE IF a = 0 THEN 0 ELSE 1

\* floor of (a * sqrt(D) + b) / L, for integers a, b and D >= 0, L > 0
FloorQ(a, D, b, L) ==
    LET s == ISqrt(a * a * D)
        fl == IF a >= 0 THEN s ELSE IF s * s = a * a * D THEN -s ELSE -(s + 1)
    IN  (fl + b) \div L

\* whether (a * sqrt(D) + b) / L is an integer
IsWhole(a, D, b, L) ==
    /\ IsSquare(a * a * D)
    /\ (Sgn(a) * ISqrt(a * a * D) + b) % L = 0

\* int(v) for the double v = (a * sqrt(D) + b) / L: v truncated towards zero.
\* The doubles the source computes carry rounding errors, so where v is a whole
\* number other than zero the double may fall just short of it, and int() then
\* gives the whole number one nearer to zero.
IntOfDouble(a, D, b, L) ==
    LET fl == FloorQ(a, D, b, L)
        t == IF fl >= 0 THEN fl ELSE -FloorQ(-a, D, -b, L)
    IN  IF IsWhole(a, D, b, L) /\ t # 0 THEN {t, t - Sgn(t)} ELSE {t}

\* int(NaN) is undefined: the builds give 0 or INT_MIN
IntOfNaN == {0, -2147483647 - 1}

\* int + int wrapping at 32 bits, for the one sum that can leave the range
AddInt32(a, g) ==
    IF g = -2147483647 - 1 /\ a < 0 THEN (a + 2147483647) + 1 ELSE a + g

\* CornerLine without the increment of the radius
CornerLineNoIncrement(centre, radius, in, out) ==
    LET k == Point(in.x - centre.x, in.y - centre.y)
        pt == Point(out.x - centre.x, out.y - centre.y)
        dx == pt.x - k.x
        dy == pt.y - k.y
        C == pt.y * dx - dy * pt.x
        L == dx * dx + dy * dy
    IN  [dx |-> dx, dy |-> dy, C |-> C, L |-> L,
         D |-> L * radius * radius - C * C]

\* lines 392-410 with the line through the two points kept in integers:
\* m = dy / dx, c = C / dx, and (m^2 + 1) r^2 - c^2 = D / dx^2
CornerLine(centre, radius, in, out) ==
    LET k == Point(in.x - centre.x, in.y - centre.y)
        pt == Point(out.x - centre.x, out.y - centre.y)
        dx == pt.x - k.x
        dy == pt.y - k.y
        C == pt.y * dx - dy * pt.x
        L == dx * dx + dy * dy
    IN  [dx |-> dx, dy |-> dy, C |-> C, L |-> L,
         D |-> L * (radius + 1) * (radius + 1) - C * C]

\* the points GetCornerPoint can return; dx # 0 is the caller's duty
GetCornerPoint(centre, radius, sign, in, out) ==
    LET ln == CornerLine(centre, radius, in, out)
        exact == {Point(centre.x + x, centre.y + y) :
                    x \in IntOfDouble(sign * Abs(ln.dx), ln.D, -(ln.C * ln.dy), ln.L),
                    y \in IntOfDouble(sign * ln.dy * Sgn(ln.dx), ln.D, ln.C * ln.dx, ln.L)}
        nan == {Point(AddInt32(centre.x, g), AddInt32(centre.y, g)) : g \in IntOfNaN}
    IN  IF ln.D < 0 THEN nan
        ELSE IF ln.D = 0 THEN exact \cup nan
        ELSE exact

\* GraphNode::GetPerimeterPoint: the point where the segment leaves the plain
\* rectangle, found by clipping the outside point against one edge after another
GraphNode_GetPerimeterPoint(n, in, out) ==
    LET b == n.bounds
        right == b.x + b.width
        bottom == b.y + b.height
        dx == out.x - in.x
        dy == out.y - in.y
        p1 == IF out.x < b.x
              THEN Point(b.x, in.y + TruncDiv((b.x - in.x) * dy, dx))
              ELSE IF out.x > right
              THEN Point(right, in.y + TruncDiv((right - in.x) * dy, dx))
              ELSE out
    IN  IF p1.y < b.y
        THEN Point(in.x + TruncDiv((b.y - in.y) * dx, dy), b.y)
        ELSE IF p1.y > bottom
        THEN Point(in.x + TruncDiv((bottom - in.y) * dx, dy), bottom)
        ELSE p1

\* the radius taken with the whole border thickness
CornerRadiusOfWholeThickness(n) == n.m_cornerRadius + n.m_borderThickness

\* lines 426-429
CornerRadiusOf(n) == n.m_cornerRadius + TruncDiv(n.m_borderThickness, 2)

\* CornerOf with the bottom-left corner given the top-left circle
CornerOfBottomLeftAtTop(b, pt) ==
    IF pt.x < b.x /\ pt.y < b.y
    THEN [corner |-> "TL", centre |-> Point(b.x, b.y), sign |-> -1]
    ELSE IF pt.x > GetRight(b) /\ pt.y < b.y
    THEN [corner |-> "TR", centre |-> Point(GetRight(b), b.y), sign |-> 1]
    ELSE IF pt.x < b.x /\ pt.y > GetBottom(b)
    THEN [corner |-> "BL", centre |-> Point(b.x, b.y), sign |-> -1]
    ELSE IF pt.x > GetRight(b) /\ pt.y > GetBottom(b)
    THEN [corner |-> "BR", centre |-> Point(GetRight(b), GetBottom(b)), sign |-> 1]
    ELSE [corner |-> "none", centre |-> Point(0, 0), sign |-> 0]

\* CornerOf with the comparisons taken inclusively
CornerOfInclusive(b, pt) ==
    IF pt.x <= b.x /\ pt.y <= b.y
    THEN [corner |-> "TL", centre |-> Point(b.x, b.y), sign |-> -1]
    ELSE IF pt.x >= GetRight(b) /\ pt.y <= b.y
    THEN [corner |-> "TR", centre |-> Point(GetRight(b), b.y), sign |-> 1]
    ELSE IF pt.x <= b.x /\ pt.y >= GetBottom(b)
    THEN [corner |-> "BL", centre |-> Point(b.x, GetBottom(b)), sign |-> -1]
    ELSE IF pt.x >= GetRight(b) /\ pt.y >= GetBottom(b)
    THEN [corner |-> "BR", centre |-> Point(GetRight(b), GetBottom(b)), sign |-> 1]
    ELSE [corner |-> "none", centre |-> Point(0, 0), sign |-> 0]

\* lines 435-446: the corner the plain point lies in, its circle and its root
CornerOf(b, pt) ==
    IF pt.x < b.x /\ pt.y < b.y
    THEN [corner |-> "TL", centre |-> Point(b.x, b.y), sign |-> -1]
    ELSE IF pt.x > GetRight(b) /\ pt.y < b.y
    THEN [corner |-> "TR", centre |-> Point(GetRight(b), b.y), sign |-> 1]
    ELSE IF pt.x < b.x /\ pt.y > GetBottom(b)
    THEN [corner |-> "BL", centre |-> Point(b.x, GetBottom(b)), sign |-> -1]
    ELSE IF pt.x > GetRight(b) /\ pt.y > GetBottom(b)
    THEN [corner |-> "BR", centre |-> Point(GetRight(b), GetBottom(b)), sign |-> 1]
    ELSE [corner |-> "none", centre |-> Point(0, 0), sign |-> 0]

\* the guard without its test of the y coordinates
DegenerateNoY(b, in, out) == IsEmpty(b) \/ in.x = out.x

\* line 432
Degenerate(b, in, out) == IsEmpty(b) \/ in.x = out.x \/ in.y = out.y

\* what one call computes: the locals, the branch taken and the point returned
GetPerimeterPoint(n, in, out) ==
    LET pt == GraphNode_GetPerimeterPoint(n, in, out)
        r == CornerRadiusOf(n)
        b == Deflate(n.bounds, r)
        c == CornerOf(b, pt)
        base == [called |-> TRUE, plain |-> pt, r |-> r, b |-> b]
    IN  IF Degenerate(b, in, out) \/ c.corner = "none"
        THEN {base @@ [pt |-> pt, degenerate |-> Degenerate(b, in, out),
                        corner |-> "none", centre |-> Point(0, 0), sign |-> 0,
                        radius |-> 0, disc |-> 0]}
        ELSE {base @@ [pt |-> q, degenerate |-> FALSE, corner |-> c.corner,
                        centre |-> c.centre, sign |-> c.sign, radius |-> r + 1,
                        disc |-> CornerLine(c.centre, r, in, out).D] :
                q \in GetCornerPoint(c.centre, r, c.sign, in, out)}

----------------------------------------------------------------------------
(* The nodes and the points GetPerimeterPoint is asked about *)

\* how far beyond the bounds the outside points lie
Margin == 3

\* bounds of at most this width are asked about every point
MaxSmallWidth == 16

PerimeterNode(bounds, radius, thickness) ==
    [InitNode EXCEPT !.bounds = bounds, !.m_cornerRadius = radius,
                     !.m_borderThickness = thickness]

\* a square centred at the origin, a rectangle too small for its corner
\* circles, and the default node at 100 x 60
PerimeterNodes ==
    {PerimeterNode(Rect(-5, -5, 10, 10), 2, 2),
     PerimeterNode(Rect(2, 1, 6, 8), 3, 0),
     PerimeterNode(Rect(0, 0, 100, 60), DefaultCornerRadius, DefaultBorderThickness)}

InsidePoints(n) ==
    LET b == n.bounds
    IN  IF b.width <= MaxSmallWidth
        THEN {Point(px, py) : px \in b.x..GetRight(b), py \in b.y..GetBottom(b)}
        ELSE {Point(b.x + b.width \div 2, b.y + b.height \div 2)}

OutsidePoints(n) ==
    LET b == n.bounds
    IN  IF b.width <= MaxSmallWidth
        THEN {Point(px, py) : px \in (b.x - Margin)..(b.x + b.width + Margin),
                              py \in (b.y - Margin)..(b.y + b.height + Margin)}
               \ {Point(px, py) : px \in b.x..(b.x + b.width),
                                  py \in b.y..(b.y + b.height)}
        ELSE {Point(2 * b.width, b.y + b.height \div 2),
              Point(b.x + b.width \div 2, b.y - b.height)}

\* segments that cross a corner square of the wider bounds: one that passes the
\* top-left circle by, one that leaves to the left through the top-right square
CornerPoints(n) ==
    LET b == n.bounds
    IN  IF b.width <= MaxSmallWidth THEN {}
        ELSE {<<Point(b.x + 1, b.y + 2), Point(b.x + 3, b.y - 2)>>,
              <<Point(GetRight(b) - 4, b.y + 5), Point(b.x + 60, b.y - 40)>>}

\* the pairs of arguments of the calls
PointPairs(n) ==
    (InsidePoints(n) \X OutsidePoints(n)) \cup CornerPoints(n)

InitPerimeter ==
    /\ node \in PerimeterNodes
    /\ op = "ProjectNode"
    /\ passes = 0
    /\ emptyOnEntry = {}
    /\ measured = {}
    /\ hitPt = NoPoint
    /\ hit = "none"
    /\ ptInside = NoPoint
    /\ ptOutside = NoPoint
    /\ perim = NoPerim
    /\ canvas = NoCanvas

\* one call of the const member function on the node as it stands; a further
\* call would start from the same node, so each behaviour makes one
PerimeterPoint ==
    /\ ~perim.called
    /\ \E pp \in PointPairs(node) :
        \E res \in GetPerimeterPoint(node, pp[1], pp[2]) :
            /\ ptInside' = pp[1]
            /\ ptOutside' = pp[2]
            /\ perim' = res
            /\ op' = "GetPerimeterPoint"
            /\ UNCHANGED <<node, passes, emptyOnEntry, measured, hitPt, hit, canvas>>

NextPerimeter == PerimeterPoint

SpecPerimeter == InitPerimeter /\ [][NextPerimeter]_vars

----------------------------------------------------------------------------
(* ProjectDesigner::DrawCanvasBackground *)

\* a % b of C++: the remainder has the sign of a
TruncRem(a, b) == a - b * TruncDiv(a, b)

\* whether a * 2 leaves the range of a 32-bit int
Overflows2(a) == a > 1073741823 \/ a < -1073741824

\* a * 2 of a 32-bit int where the product wraps around
Times2(a) ==
    IF a > 1073741823 THEN ((a - 1073741824) * 2 - 2147483647) - 1
    ELSE IF a < -1073741824 THEN ((a + 1073741824) * 2 + 2147483647) + 1
    ELSE a * 2

\* the zoom percentages GetZoom returns
Zooms == {-1, 0, 1, 25, 50, 51, 100}

\* the grid spacings of the graph
GridSpacings == {1, 2}

\* the clipping boxes, in logical coordinates: one across the origin, one at it
ClipBoxes == {Rect(-7, -3, 12, 9), Rect(0, 0, 11, 6)}

\* lines 139-141: the first column starts on a multiple of the spacing
FirstColumn(c, spacing) ==
    LET x0 == c.clip.x - TruncRem(c.clip.x, spacing)
    IN  IF c.clip.x < 0 THEN x0 - spacing ELSE x0

\* the locals once the spacing is known, at the test of the column loop
AtColumns(c, factor, spacing) ==
    [c EXCEPT !.pc = "columns", !.factor = factor, !.spacing = spacing,
              !.at = FirstColumn(c, spacing), !.last = GetRight(c.clip)]

\* lines 121-125 and 134-137: the factor before the zoom loop
CanvasBegin ==
    /\ canvas.pc = "begin"
    /\ canvas' = IF canvas.shown
                 THEN IF canvas.zoom # 0
                      THEN [canvas EXCEPT !.pc = "zoom", !.factor = 5]
                      ELSE AtColumns(canvas, 5, 5 * canvas.grid)
                 ELSE AtColumns(canvas, 1, canvas.grid)
    /\ UNCHANGED <<node, op, passes, emptyOnEntry, measured, hitPt, hit,
                   ptInside, ptOutside, perim>>

\* lines 126-132: the test of the zoom loop and one iteration of it, or the
\* exit to line 132.  A product that leaves the range of int is undefined:
\* the builds wrap it around or trap.  turn tells one iteration from the next
\* where an iteration leaves the locals as they were.
ZoomStep ==
    /\ canvas.pc = "zoom"
    /\ \/ /\ canvas.zoom <= 50
          /\ \/ canvas' = [canvas EXCEPT !.factor = Times2(canvas.factor),
                                          !.zoom = Times2(canvas.zoom),
                                          !.turn = 1 - canvas.turn]
             \/ /\ Overflows2(canvas.factor) \/ Overflows2(canvas.zoom)
                /\ canvas' = [canvas EXCEPT !.pc = "trap"]
       \/ /\ canvas.zoom > 50
          /\ canvas' = AtColumns(canvas, canvas.factor, canvas.factor * canvas.grid)
    /\ UNCHANGED <<node, op, passes, emptyOnEntry, measured, hitPt, hit,
                   ptInside, ptOutside, perim>>

\* lines 177-182: the first and the last vertical grid line
AtVLines(c) ==
    LET right == GetRight(c.clip)
        x1 == c.clip.x - TruncRem(c.clip.x, c.spacing)
        x2 == right - TruncRem(right, c.spacing)
    IN  [c EXCEPT !.pc = "vlines",
                  !.at = IF c.clip.x < 0 THEN x1 - c.spacing ELSE x1,
                  !.last = IF right > 0 THEN x2 + c.spacing ELSE x2]

\* lines 154-171: the test of the column loop and one column of the ramp, with
\* its index i; or the exit to line 173
ColumnStep ==
    /\ canvas.pc = "columns"
    /\ canvas' =
         IF canvas.at < canvas.last
         THEN [canvas EXCEPT
                 !.i = Min(Abs(TruncDiv(canvas.at, canvas.spacing)) * canvas.factor, 255),
                 !.at = canvas.at + canvas.spacing]
         ELSE IF canvas.shown THEN AtVLines(canvas)
         ELSE [canvas EXCEPT !.pc = "done"]
    /\ UNCHANGED <<node, op, passes, emptyOnEntry, measured, hitPt, hit,
                   ptInside, ptOutside, perim>>

\* lines 193-198: the first and the last horizontal grid line
AtHLines(c) ==
    LET bottom == GetBottom(c.clip)
        y1 == c.clip.y - TruncRem(c.clip.y, c.spacing)
        y2 == bottom - TruncRem(bottom, c.spacing)
    IN  [c EXCEPT !.pc = "hlines",
                  !.at = IF c.clip.y < 0 THEN y1 - c.spacing ELSE y1,
                  !.last = IF bottom > 0 THEN y2 + c.spacing ELSE y2]

\* lines 186-189: the test of the loop and one vertical line, or the exit
VLineStep ==
    /\ canvas.pc = "vlines"
    /\ canvas' = IF canvas.at <= canvas.last
                 THEN [canvas EXCEPT !.at = canvas.at + canvas.spacing]
                 ELSE AtHLines(canvas)
    /\ UNCHANGED <<node, op, passes, emptyOnEntry, measured, hitPt, hit,
                   ptInside, ptOutside, perim>>

\* lines 200-204: the test of the loop and one horizontal line, or the return
HLineStep ==
    /\ canvas.pc = "hlines"
    /\ canvas' = IF canvas.at <= canvas.last
                 THEN [canvas EXCEPT !.at = canvas.at + canvas.spacing]
                 ELSE [canvas EXCEPT !.pc = "done"]
    /\ UNCHANGED <<node, op, passes, emptyOnEntry, measured, hitPt, hit,
                   ptInside, ptOutside, perim>>

\* the call: the grid shown or not, the zoom, the grid spacing, the clipping box
InitCanvas ==
    /\ node = InitNode
    /\ op = "ProjectNode"
    /\ passes = 0
    /\ emptyOnEntry = {}
    /\ measured = {}
    /\ hitPt = NoPoint
    /\ hit = "none"
    /\ ptInside = NoPoint
    /\ ptOutside = NoPoint
    /\ perim = NoPerim
    /\ \E shown \in BOOLEAN, zoom \in Zooms, grid \in GridSpacings, clip \in ClipBoxes :
          canvas = [pc |-> "begin", shown |-> shown, zoom0 |-> zoom, zoom |-> zoom,
                    grid |-> grid, clip |-> clip, factor |-> 0, spacing |-> 0,
                    at |-> 0, last |-> 0, i |-> 0, turn |-> 0]

NextCanvas ==
    \/ CanvasBegin
    \/ ZoomStep
    \/ ColumnStep
    \/ VLineStep
    \/ HLineStep

\* the function runs on the GUI thread to its return: a step that can be taken
\* is taken
SpecCanvas == InitCanvas /\ [][NextCanvas]_vars /\ WF_vars(NextCanvas)

----------------------------------------------------------------------------

(* What the claims speak of *)

Setters ==
    {"SetText", "SetFont", "SetResult", "SetIcon", "SetBorderThickness",
     "SetCornerRadius"}

\* the member functions that end with a layout pass
LayoutOps == Setters \cup {"Layout"}

AllRects == {"text", "result", "icon"}

\* strictly within the outer rectangle: off its first and last row and column
StrictlyInside(b, p) ==
    /\ b.x < p.x /\ p.x < GetRight(b)
    /\ b.y < p.y /\ p.y < GetBottom(b)

StrictlyOutside(b, p) ==
    \/ p.x < b.x \/ p.x > b.x + b.width
    \/ p.y < b.y \/ p.y > b.y + b.height

DistSq(p, q) == (p.x - q.x) * (p.x - q.x) + (p.y - q.y) * (p.y - q.y)

\* p is on the segment from a to b, give or take the rounding of a coordinate:
\* within sqrt(2) of the line, and between the two points
OnSegment(p, a, b) ==
    LET dx == b.x - a.x
        dy == b.y - a.y
        cross == (p.x - a.x) * dy - (p.y - a.y) * dx
    IN  /\ Min(a.x, b.x) - 1 <= p.x /\ p.x <= Max(a.x, b.x) + 1
        /\ Min(a.y, b.y) - 1 <= p.y /\ p.y <= Max(a.y, b.y) + 1
        /\ cross * cross <= 2 * (dx * dx + dy * dy)

Clamp(v, lo, hi) == IF v < lo THEN lo ELSE IF v > hi THEN hi ELSE v

\* p is on the outline of the rectangle b with corners of radius r, give or
\* take two pixels: the outline is the set of points at distance r from the
\* rectangle that joins the centres of the corner circles
OnSilhouette(b, r, p) ==
    LET midX == b.x + b.width \div 2
        midY == b.y + b.height \div 2
        core == Point(Clamp(p.x, Min(b.x + r, midX), Max(b.x + b.width - r, midX)),
                      Clamp(p.y, Min(b.y + r, midY), Max(b.y + b.height - r, midY)))
        d2 == DistSq(p, core)
    IN  /\ d2 <= (r + 2) * (r + 2)
        /\ r > 2 => d2 >= (r - 2) * (r - 2)

\* a distance whose square is d2 is R less the rounding of two coordinates
\* towards the centre: R - sqrt(2) <= d <= R
WithinRounding(d2, R) ==
    /\ d2 <= R * R
    /\ \/ R * R - d2 - 2 <= 0
       \/ 8 * d2 >= (R * R - d2 - 2) * (R * R - d2 - 2)

----------------------------------------------------------------------------
(* C1 *)

\* C1: for inside strictly inside the bounds and outside strictly outside them,
\* GetPerimeterPoint returns a point on the rounded-rectangle silhouette and on
\* the segment from inside to outside, between the two (to within rounding).
C1_PerimeterPointOnSilhouetteAndSegment ==
    (perim.called /\ StrictlyInside(node.bounds, ptInside)
                  /\ StrictlyOutside(node.bounds, ptOutside))
      => /\ OnSegment(perim.pt, ptInside, ptOutside)
         /\ OnSilhouette(node.bounds,
                         node.m_cornerRadius + node.m_borderThickness \div 2, perim.pt)

----------------------------------------------------------------------------
(* C2 *)

\* C2: when inside.x = outside.x, or inside.y = outside.y, or the bounds
\* deflated by cornerRadius + borderThickness/2 are empty, GetPerimeterPoint
\* returns exactly the plain-rectangle point of GraphNode::GetPerimeterPoint and
\* does not call the corner-circle solver.
C2_DegenerateReturnsPlainPoint ==
    (/\ perim.called
     /\ \/ ptInside.x = ptOutside.x
        \/ ptInside.y = ptOutside.y
        \/ IsEmpty(Deflate(node.bounds,
                           node.m_cornerRadius + node.m_borderThickness \div 2)))
      => /\ perim.pt = GraphNode_GetPerimeterPoint(node, ptInside, ptOutside)
         /\ perim.corner = "none"

\* a horizontal segment whose plain point lies in the top-right corner square
C2_Witness ==
    /\ perim.called
    /\ ptInside.y = ptOutside.y
    /\ ~IsEmpty(perim.b)
    /\ perim.plain.x > GetRight(perim.b)
    /\ perim.plain.y < perim.b.y
    /\ perim.pt = perim.plain

----------------------------------------------------------------------------
(* C3 *)

\* C3: a layout pass that follows a layout pass, with no setter or resize in
\* between, leaves the cached rectangles, minSize, divide and the bounds (the
\* whole node) as the first pass left them.
C3_LayoutIdempotent ==
    [][(passes >= 1 /\ op' = "Layout") => node' = node]_vars

\* a second pass in a row, on a node whose first pass grew it and cached all
\* three rectangles
C3_Witness ==
    /\ passes = 2
    /\ op = "Layout"
    /\ node.bounds.height = node.m_minSize.y
    /\ ~IsEmpty(node.m_rcText) /\ ~IsEmpty(node.m_rcResult) /\ ~IsEmpty(node.m_rcIcon)

----------------------------------------------------------------------------
(* C4 *)

----------------------------------------------------------------------------
(* C5 *)

\* C5: after SetFont and its layout pass, textRect has the extent of the label
\* under the new font and resultRect the extent of the result text under it.
C5_FontChangeRemeasures ==
    op = "SetFont" =>
        LET te == GetMultiLineTextExtent(node.m_text, node.m_font)
            re == GetMultiLineTextExtent(node.m_result, node.m_font)
        IN  /\ node.m_rcText.width = te.w /\ node.m_rcText.height = te.h
            /\ node.m_rcResult.width = re.w /\ node.m_rcResult.height = re.h

\* the larger font on a node with a label and a result, both cached before
C5_Witness ==
    /\ op = "SetFont"
    /\ node.m_font = [cw |-> 2, lh |-> 3]
    /\ node.m_rcText.width = 6 /\ node.m_rcText.height = 6
    /\ node.m_rcResult.width = 8 /\ node.m_rcResult.height = 3

----------------------------------------------------------------------------
(* C6 *)

\* C6: a layout pass sets the width to exactly minSize.x when it was less, the
\* height to exactly minSize.y when it was less, and leaves a dimension that met
\* minSize unchanged; so after the pass the bounds are at least minSize.
C6_GrowthExact ==
    [][op' \in LayoutOps =>
         /\ node'.bounds.width = (IF node.bounds.width < node'.m_minSize.x
                                  THEN node'.m_minSize.x ELSE node.bounds.width)
         /\ node'.bounds.height = (IF node.bounds.height < node'.m_minSize.y
                                   THEN node'.m_minSize.y ELSE node.bounds.height)
         /\ node'.bounds.width >= node'.m_minSize.x
         /\ node'.bounds.height >= node'.m_minSize.y]_vars

\* a pass that left the width at the minimum and the height above it
C6_Witness ==
    /\ op \in LayoutOps
    /\ node.bounds.width = node.m_minSize.x
    /\ node.bounds.height > node.m_minSize.y
    /\ node.bounds.height < MaxResize

----------------------------------------------------------------------------
(* C7 *)

\* C7: over setter calls and layout passes, with no SetSize by the caller, the
\* width and the height of the bounds never decrease.
C7_BoundsNeverShrink ==
    [][op' # "SetSize" =>
         /\ node'.bounds.width >= node.bounds.width
         /\ node'.bounds.height >= node.bounds.height]_vars

\* the label was set to "" on a node grown for a longer one
C7_Witness ==
    /\ op = "SetText"
    /\ node.m_text = <<>>
    /\ node.bounds.width > node.m_minSize.x
    /\ node.bounds.height > node.m_minSize.y
    /\ node.bounds.width < MaxResize

----------------------------------------------------------------------------
(* C8 *)

\* C8 as stated: HitTest returns Hit_No off the bounds; on them, for a
\* custom-style node, the tag of the first of textRect, resultRect, iconRect
\* (moved by the bounds' top-left) that holds the point, and Hit_Yes when none
\* does; after a layout pass a point in the result rectangle gets Hit_Result.
C8_HitTestOrder ==
    op = "HitTest" =>
        LET b == node.bounds
            p == Point(hitPt.x - b.x, hitPt.y - b.y)
            inBounds == RectInside(b, hitPt)
            inText == RectInside(node.m_rcText, p)
            inResult == RectInside(node.m_rcResult, p)
            inIcon == RectInside(node.m_rcIcon, p)
        IN  /\ ~inBounds => hit = "Hit_No"
            /\ (inBounds /\ inText) => hit = "Hit_Operation"
            /\ (inBounds /\ ~inText /\ inResult) => hit = "Hit_Result"
            /\ (inBounds /\ ~inText /\ ~inResult /\ inIcon) => hit = "Hit_Image"
            /\ (inBounds /\ ~inText /\ ~inResult /\ ~inIcon) => hit = "Hit_Yes"
            /\ (passes >= 1 /\ inResult) => hit = "Hit_Result"

\* C8 as amended: HitTest returns Hit_No off the bounds; on them, for a
\* custom-style node, the tag of the first of textRect, resultRect, iconRect
\* (moved by the bounds' top-left) that holds the point, and Hit_Yes when none
\* does; after a layout pass a point in the result rectangle gets Hit_Result
\* when it is on the bounds and not in the label rectangle, and never Hit_Yes.
C8_HitTestOrderOnBounds ==
    op = "HitTest" =>
        LET b == node.bounds
            p == Point(hitPt.x - b.x, hitPt.y - b.y)
            inBounds == RectInside(b, hitPt)
            inText == RectInside(node.m_rcText, p)
            inResult == RectInside(node.m_rcResult, p)
            inIcon == RectInside(node.m_rcIcon, p)
        IN  /\ ~inBounds => hit = "Hit_No"
            /\ (inBounds /\ inText) => hit = "Hit_Operation"
            /\ (inBounds /\ ~inText /\ inResult) => hit = "Hit_Result"
            /\ (inBounds /\ ~inText /\ ~inResult /\ inIcon) => hit = "Hit_Image"
            /\ (inBounds /\ ~inText /\ ~inResult /\ ~inIcon) => hit = "Hit_Yes"
            /\ (passes >= 1 /\ inResult) => hit \notin {"Hit_Yes", "Hit_Image"}

\* a point that the result rectangle and the icon rectangle both hold
C8_Witness ==
    /\ op = "HitTest"
    /\ passes >= 1
    /\ hit = "Hit_Result"
    /\ RectInside(node.m_rcIcon,
                  Point(hitPt.x - node.bounds.x, hitPt.y - node.bounds.y))

----------------------------------------------------------------------------
(* C9 *)

SquareAtOrigin(b) ==
    /\ b.width = b.height
    /\ b.x = -(b.width \div 2)
    /\ b.y = -(b.height \div 2)

\* C9: for a square centred at the origin, inside at the centre and outside on
\* a diagonal beyond a corner, the returned point is at radius+1 (to within the
\* rounding) from that corner's circle centre, the matching corner of the
\* deflated rectangle; for each of the four corners.
C9_CornerSymmetry ==
    (/\ perim.called
     /\ SquareAtOrigin(node.bounds)
     /\ ptInside = Point(0, 0)
     /\ Abs(ptOutside.x) = Abs(ptOutside.y))
      => LET r == node.m_cornerRadius + node.m_borderThickness \div 2
             b == Deflate(node.bounds, r)
             centre == Point(IF ptOutside.x < 0 THEN b.x ELSE GetRight(b),
                             IF ptOutside.y < 0 THEN b.y ELSE GetBottom(b))
         IN  WithinRounding(DistSq(perim.pt, centre), r + 1)

\* the bottom-left diagonal
C9_Witness ==
    /\ perim.called
    /\ SquareAtOrigin(node.bounds)
    /\ ptInside = Point(0, 0)
    /\ ptOutside.x < 0 /\ ptOutside.y = -ptOutside.x
    /\ perim.corner = "BL"

----------------------------------------------------------------------------
(* C10 *)

\* C10: for bounds rect(0,0,100,60), cornerRadius 10 and borderThickness 6 the
\* deflate radius is 13 and the deflated rectangle is rect(13,13,74,34); with
\* inside (50,30) and outside (200,30) the y-equality guard fires and the plain
\* point (100,30) is returned.
C10_Scenario ==
    (/\ perim.called
     /\ node.bounds = Rect(0, 0, 100, 60)
     /\ node.m_cornerRadius = 10
     /\ node.m_borderThickness = 6
     /\ ptInside = Point(50, 30)
     /\ ptOutside = Point(200, 30))
      => /\ perim.r = 13
         /\ perim.b = Rect(13, 13, 74, 34)
         /\ perim.degenerate
         /\ perim.corner = "none"
         /\ perim.pt = Point(100, 30)

C10_Witness ==
    /\ perim.called
    /\ node.bounds = Rect(0, 0, 100, 60)
    /\ ptInside = Point(50, 30)
    /\ ptOutside = Point(200, 30)
    /\ perim.pt = Point(100, 30)

----------------------------------------------------------------------------
(* C11 *)

\* the spacing of the node's thickness and radius, as the claims spell it
SpacingNow ==
    LET half == node.m_borderThickness \div 2
        diff == node.m_cornerRadius - half
        quot == IF diff >= 0 THEN (diff * 1000000) \div 1414214
                ELSE -((-diff * 1000000) \div 1414214)
    IN  node.m_cornerRadius + half - quot

\* C11: after every layout pass minSize.x = max(textRect.right,
\* resultRect.right) + spacing + 1 and minSize.y = max(iconRect.height,
\* resultRect.height) + textRect.bottom + 2 + 2*spacing - borderThickness, for
\* the spacing of the current cornerRadius and borderThickness and the
\* rectangles cached at the end of the pass.
C11_MinSizeFormula ==
    op \in LayoutOps =>
        LET t == node.m_rcText
            r == node.m_rcResult
            i == node.m_rcIcon
            textRight == t.x + t.width - 1
            resultRight == r.x + r.width - 1
            textBottom == t.y + t.height - 1
        IN  /\ node.m_minSize.x =
                 (IF textRight < resultRight THEN resultRight ELSE textRight)
                   + SpacingNow + 1
            /\ node.m_minSize.y =
                 (IF i.height < r.height THEN r.height ELSE i.height)
                   + textBottom + 2 + 2 * SpacingNow - node.m_borderThickness

\* a pass on a node with a border, a label, a result wider than the label and
\* an icon taller than the result
C11_Witness ==
    /\ op \in LayoutOps
    /\ node.m_borderThickness > 0
    /\ node.m_rcText.width > 0
    /\ GetRight(node.m_rcResult) > GetRight(node.m_rcText)
    /\ node.m_rcIcon.height > node.m_rcResult.height
    /\ node.m_rcResult.height > 0

----------------------------------------------------------------------------
(* C12 *)

----------------------------------------------------------------------------
(* C13 *)

\* C13: a layout pass that follows a layout pass with no input changed in
\* between measures no text; the label is measured only in a pass that follows
\* an invalidation of textRect, the result text only in one that follows an
\* invalidation of resultRect; for every content, strings of zero extent
\* included.
C13_NoRemeasure ==
    [][passes >= 1 =>
         /\ op' = "Layout" => measured' = {}
         /\ op' \in {"SetResult", "SetIcon"} => "text" \notin measured'
         /\ op' \in {"SetText", "SetIcon"} => "result" \notin measured']_vars

----------------------------------------------------------------------------
(* C14 *)

\* C14: after any sequence of setter calls followed by a layout pass, the
\* result rectangle lies to the right of the icon currently set:
\* resultRect.x = spacing + iconRect.width + spacing, with iconRect that of the
\* current icon.
C14_ResultRightOfIcon ==
    op \in LayoutOps =>
        /\ node.m_rcIcon.width = node.m_icon.width
        /\ node.m_rcResult.x = SpacingNow + node.m_rcIcon.width + SpacingNow

----------------------------------------------------------------------------
(* C15 *)

\* a / 2 as C++ divides
Half(a) == IF a >= 0 THEN a \div 2 ELSE -((-a) \div 2)

\* C15: after every layout pass divide = textRect.bottom + 1 + spacing -
\* borderThickness and, with mid = (divide + bounds.height) / 2 on the bounds
\* as the pass grew them, iconRect.y = mid - iconRect.height/2 and
\* resultRect.y = mid - resultRect.height/2.
C15_DivideAndCentre ==
    op \in LayoutOps =>
        LET textBottom == node.m_rcText.y + node.m_rcText.height - 1
            divide == textBottom + 1 + SpacingNow - node.m_borderThickness
            mid == Half(divide + node.bounds.height)
        IN  /\ node.m_divide = divide
            /\ node.m_rcIcon.y = mid - Half(node.m_rcIcon.height)
            /\ node.m_rcResult.y = mid - Half(node.m_rcResult.height)

\* a pass that grew the height of a node with a label, a result and an icon of
\* odd height
C15_Witness ==
    /\ op \in LayoutOps
    /\ node.bounds.height = node.m_minSize.y
    /\ node.m_rcText.height > 0
    /\ node.m_rcResult.height > 0
    /\ node.m_rcIcon.height % 2 = 1
    /\ node.m_rcIcon.y # node.m_rcResult.y

----------------------------------------------------------------------------
(* C16 *)

\* the bounds of the node deflated by cornerRadius + borderThickness/2
DeflatedNow ==
    Deflate(node.bounds, node.m_cornerRadius + node.m_borderThickness \div 2)

\* neither the deflated rectangle is empty nor the segment axis-aligned
NonDegenerateNow ==
    /\ ~IsEmpty(DeflatedNow)
    /\ ptInside.x # ptOutside.x
    /\ ptInside.y # ptOutside.y

\* C16: in the non-degenerate case the plain point pt is classified against the
\* deflated rectangle b by strict comparisons: pt.x < b.x and pt.y < b.y selects
\* the top-left circle (centre b's top-left, sign -1), pt.x > b.right and
\* pt.y < b.y the top-right (sign +1), pt.x < b.x and pt.y > b.bottom the
\* bottom-left (sign -1), pt.x > b.right and pt.y > b.bottom the bottom-right
\* (sign +1); a pt in none of the four quadrants, one on a line through an edge
\* of b included, is returned unchanged.
C16_StrictQuadrants ==
    (perim.called /\ NonDegenerateNow) =>
        LET b == DeflatedNow
            pt == GraphNode_GetPerimeterPoint(node, ptInside, ptOutside)
            right == b.x + b.width - 1
            bottom == b.y + b.height - 1
            left == pt.x < b.x
            above == pt.y < b.y
            beyond == pt.x > right
            below == pt.y > bottom
        IN  /\ (left /\ above) =>
                 /\ perim.corner = "TL" /\ perim.sign = -1
                 /\ perim.centre = Point(b.x, b.y)
            /\ (beyond /\ above) =>
                 /\ perim.corner = "TR" /\ perim.sign = 1
                 /\ perim.centre = Point(right, b.y)
            /\ (left /\ below) =>
                 /\ perim.corner = "BL" /\ perim.sign = -1
                 /\ perim.centre = Point(b.x, bottom)
            /\ (beyond /\ below) =>
                 /\ perim.corner = "BR" /\ perim.sign = 1
                 /\ perim.centre = Point(right, bottom)
            /\ ~((left \/ beyond) /\ (above \/ below)) =>
                 /\ perim.corner = "none"
                 /\ perim.pt = pt

\* a plain point on the top edge of the bounds, exactly on the line through the
\* left edge of b: no corner, the point is returned as it is
C16_Witness ==
    /\ perim.called
    /\ NonDegenerateNow
    /\ perim.plain.x = perim.b.x
    /\ perim.plain.y < perim.b.y
    /\ perim.corner = "none"
    /\ perim.pt = perim.plain

----------------------------------------------------------------------------
(* C17 *)

\* the call meets the contract: the deflated rectangle is not empty, the
\* segment is not axis-aligned, inside is strictly inside the bounds and
\* outside strictly outside them
ContractNow ==
    /\ NonDegenerateNow
    /\ StrictlyInside(node.bounds, ptInside)
    /\ StrictlyOutside(node.bounds, ptOutside)

\* C17: whenever the corner branch is taken for inputs meeting the contract,
\* the root selected by sign lies on the outward-facing arc of the corner: for
\* the top-left the returned point has x <= centre.x and y <= centre.y, for the
\* top-right x >= centre.x and y <= centre.y, for the bottom-left
\* x <= centre.x and y >= centre.y, for the bottom-right x >= centre.x and
\* y >= centre.y.
C17_OutwardArc ==
    (perim.called /\ ContractNow /\ perim.corner # "none") =>
        LET p == perim.pt
            c == perim.centre
        IN  /\ perim.corner = "TL" => (p.x <= c.x /\ p.y <= c.y)
            /\ perim.corner = "TR" => (p.x >= c.x /\ p.y <= c.y)
            /\ perim.corner = "BL" => (p.x <= c.x /\ p.y >= c.y)
            /\ perim.corner = "BR" => (p.x >= c.x /\ p.y >= c.y)

----------------------------------------------------------------------------
(* C18 *)

\* the corner of the rectangle b that the corner named cn takes as its centre
CornerPointOf(b, cn) ==
    Point(IF cn \in {"TL", "BL"} THEN b.x ELSE b.x + b.width - 1,
          IF cn \in {"TL", "TR"} THEN b.y ELSE b.y + b.height - 1)

\* the point returned is on the circle of radius R about c, less the rounding
\* of int(): no farther than R, and less than a pixel short of it in x and y
OnCircle(p, c, R) ==
    /\ DistSq(p, c) <= R * R
    /\ \E ex \in {0, 1}, ey \in {0, 1} :
          (Abs(p.x - c.x) + ex) * (Abs(p.x - c.x) + ex)
            + (Abs(p.y - c.y) + ey) * (Abs(p.y - c.y) + ey) >= R * R

\* C18 as stated: the bounds are deflated by cornerRadius + borderThickness/2
\* + 1 to obtain the centres of the corner circles, and the circle the corner
\* solver intersects has the radius cornerRadius + borderThickness/2 + 1.
C18_RadiusBumpedTwice ==
    perim.called =>
        LET R == node.m_cornerRadius + node.m_borderThickness \div 2 + 1
        IN  /\ perim.b = Deflate(node.bounds, R)
            /\ (perim.corner # "none" /\ perim.disc > 0) =>
                 /\ perim.centre = CornerPointOf(Deflate(node.bounds, R), perim.corner)
                 /\ OnCircle(perim.pt, perim.centre, R)

\* C18 as amended: the bounds are deflated by cornerRadius + borderThickness/2,
\* without the increment, to obtain the centres of the corner circles; the
\* circle the corner solver intersects has the radius cornerRadius +
\* borderThickness/2 + 1.
C18_RadiusBumpedInSolver ==
    perim.called =>
        LET r == node.m_cornerRadius + node.m_borderThickness \div 2
        IN  /\ perim.b = Deflate(node.bounds, r)
            /\ (perim.corner # "none" /\ perim.disc > 0) =>
                 /\ perim.centre = CornerPointOf(Deflate(node.bounds, r), perim.corner)
                 /\ OnCircle(perim.pt, perim.centre, r + 1)

\* a corner result at the full radius from its centre: on the circle of radius
\* r + 1, off the circle of radius r
C18_Witness ==
    /\ perim.called
    /\ perim.corner = "TL"
    /\ perim.disc > 0
    /\ perim.b = Deflate(node.bounds, perim.r)
    /\ DistSq(perim.pt, perim.centre) = (perim.r + 1) * (perim.r + 1)

----------------------------------------------------------------------------
(* C19 *)

\* the setters that store, reset, lay out and refresh in their own body
OwnLayoutSetters == {"SetResult", "SetIcon", "SetBorderThickness", "SetCornerRadius"}

----------------------------------------------------------------------------
(* C20 *)

\* C20: for every input meeting the contract (deflated rectangle not empty,
\* inside strictly inside the bounds, outside strictly outside, segment not
\* axis-aligned) for which a corner branch is taken, the discriminant
\* (m^2+1)*radius^2 - c^2 passed to sqrt is not negative: the line through
\* inside and outside reaches the circle of the selected corner.
C20_DiscriminantNonNegative ==
    (perim.called /\ ContractNow /\ perim.corner # "none") => perim.disc >= 0

----------------------------------------------------------------------------
(* C21 *)

\* C21 as stated: after every layout pass with cornerRadius >= 0,
\* borderThickness >= 0 and measured extents that are not negative, the header
\* band fits inside the node: 0 <= divide < bounds.height.
C21_HeaderInsideNode ==
    op \in LayoutOps =>
        /\ 0 <= node.m_divide
        /\ node.m_divide < node.bounds.height

\* C21 as amended: after every such pass -1 <= divide < bounds.height, and
\* 0 <= divide when the label's measured height is at least 1.
C21_HeaderInsideNodeForLabel ==
    op \in LayoutOps =>
        /\ -1 <= node.m_divide
        /\ node.m_rcText.height >= 1 => 0 <= node.m_divide
        /\ node.m_divide < node.bounds.height

\* a hairline border without corner radius around a node with a label, its
\* height the minimum: the band ends on the last row of the label
C21_Witness ==
    /\ op \in LayoutOps
    /\ node.m_borderThickness = 1
    /\ node.m_cornerRadius = 0
    /\ node.m_rcText.height >= 1
    /\ node.m_divide = node.m_rcText.height - 1
    /\ node.bounds.height = node.m_minSize.y

----------------------------------------------------------------------------
(* C22 *)

\* some point lies in both rectangles
Overlap(a, b) ==
    /\ a.width > 0 /\ a.height > 0 /\ b.width > 0 /\ b.height > 0
    /\ a.x < b.x + b.width /\ b.x < a.x + a.width
    /\ a.y < b.y + b.height /\ b.y < a.y + a.height

\* the spacing leaves room for the border between the label and the result
SpacingClearsBorder ==
    (SpacingNow + 1) \div 2 >= node.m_borderThickness - SpacingNow

\* C22 as stated: after every layout pass with cornerRadius >= 0 and
\* borderThickness >= 0 the label rectangle and the result rectangle do not
\* overlap: resultRect's top is strictly below textRect's bottom, so no point
\* is in both.
C22_LabelAboveResult ==
    op \in LayoutOps =>
        /\ node.m_rcResult.y > node.m_rcText.y + node.m_rcText.height - 1
        /\ ~Overlap(node.m_rcText, node.m_rcResult)

\* C22 as amended: after every such pass resultRect's top is at or below
\* textRect's bottom row; it is strictly below it, and no point is in both
\* rectangles, when (spacing + 1) / 2 >= borderThickness - spacing, which fails
\* only for cornerRadius 0 with borderThickness 1 or 3.
C22_LabelAboveResultWithSpacing ==
    op \in LayoutOps =>
        /\ node.m_rcResult.y >= node.m_rcText.y + node.m_rcText.height - 1
        /\ SpacingClearsBorder =>
             /\ node.m_rcResult.y > node.m_rcText.y + node.m_rcText.height - 1
             /\ ~Overlap(node.m_rcText, node.m_rcResult)
        /\ ~SpacingClearsBorder =>
             (node.m_cornerRadius = 0 /\ node.m_borderThickness \in {1, 3})

\* a label and a result that share columns, in a node of the minimum height
\* without border: the result begins on the row after the label's last
C22_Witness ==
    /\ op \in LayoutOps
    /\ SpacingClearsBorder
    /\ node.m_rcText.width > 0
    /\ node.m_rcResult.width > 0
    /\ node.m_rcResult.x <= GetRight(node.m_rcText)
    /\ node.bounds.height = node.m_minSize.y
    /\ node.m_rcResult.y = GetBottom(node.m_rcText) + 1

----------------------------------------------------------------------------
(* C23 *)

\* the rectangle r lies within [0, width) x [0, height) of the bounds b
WithinBounds(r, b) ==
    /\ 0 <= r.x /\ r.x + r.width <= b.width
    /\ 0 <= r.y /\ r.y + r.height <= b.height

\* C23: after any sequence of setter calls and layout passes (cornerRadius >= 0,
\* borderThickness >= 0) each cached rectangle that is not empty lies entirely
\* inside the node's bounds taken relative to their top-left, and the icon
\* rectangle and the result rectangle do not overlap.
C23_RectsInsideBounds ==
    op \in LayoutOps =>
        /\ \A r \in {node.m_rcText, node.m_rcResult, node.m_rcIcon} :
              ~IsEmpty(r) => WithinBounds(r, node.bounds)
        /\ ~Overlap(node.m_rcIcon, node.m_rcResult)

----------------------------------------------------------------------------
(* C24 *)

\* C24: DrawCanvasBackground terminates for every zoom percentage GetZoom
\* returns (positive, zero or negative, in 32-bit int arithmetic) and every
\* grid spacing >= 1: the zoom loop ends, with factor = 5 * 2^k for the least
\* k >= 0 such that zoom * 2^k > 50 (k = 0 when zoom is 0), and the column and
\* grid-line loops end.
C24_Terminates == <>(canvas.pc = "done")

====
